---- MODULE Spec2Model ----
(***************************************************************************)
(* Lead Management System (src/main.py): a FastAPI application over one    *)
(* SQLite table `leads`, gated by a bearer token.                          *)
(*                                                                         *)
(* Each handler is an operator from the table, the clock and the request   *)
(* to a Result: the table and the clock afterwards, the e-mails sent and   *)
(* the response. Two specifications apply these operators:                 *)
(*   Spec            every request handler runs from its first statement   *)
(*                   to its return without another request in between      *)
(*                   (all serial executions of the API);                   *)
(*   SpecConcurrent  the handlers that write run on NumWorkers threads of  *)
(*                   the server's thread pool, each in its own session,    *)
(*                   and interleave at their database round trips          *)
(*                   (SELECT / clock reading / COMMIT).                    *)
(***************************************************************************)
EXTENDS Integers, Sequences, FiniteSets, TLC

\* ------------------------------------------------------------------ bounds
MaxLeads == 2
MaxClock == 2
NumWorkers == 2

\* --------------------------------------------------------------- constants
HTTP_200_OK == 200
HTTP_400_BAD_REQUEST == 400
HTTP_401_UNAUTHORIZED == 401
HTTP_404_NOT_FOUND == 404
HTTP_500_INTERNAL_SERVER_ERROR == 500

PENDING == "PENDING"
REACHED_OUT == "REACHED_OUT"
LeadState == {PENDING, REACHED_OUT}

API_KEYS == {"attorney-key-123", "admin-key-456"}

\* ------------------------------------------------------------------ inputs
\* A request without an Authorization header.
NoCredentials == "<no credentials>"
\* A field the request body does not mention (pydantic: not in fields_set).
Unset == "<unset>"
\* JSON null in a request body (Python None).
None == "<None>"

Tokens == {"attorney-key-123", "invalid-key", NoCredentials}
Emails == {"john@test.com", "jane@test.com"}
FirstNames == {"", "John"}
LastNames == {"Doe"}
ResumePaths == {"s3://bucket/john.pdf"}
LeadIds == 1..(MaxLeads + 1)
Skips == 0..MaxLeads
Limits == 1..MaxLeads
StateFilters == LeadState \cup {None}

\* Bodies POST /leads accepts (LeadCreate: four required str fields).
LeadCreate ==
    [first_name : FirstNames, last_name : LastNames, email : Emails,
     resume_s3_path : ResumePaths]

\* Bodies PUT /leads/{id} accepts (LeadUpdate: five Optional fields): the
\* subsets of first_name, last_name, email and state with one value each,
\* and a first_name that is null or empty.
LeadUpdate ==
    [first_name : {Unset, "John"},
     last_name : {Unset, "Doe"},
     email : {Unset, "jane@test.com"},
     resume_s3_path : {Unset},
     state : {Unset, REACHED_OUT}]
    \cup
    [first_name : {None, ""},
     last_name : {Unset},
     email : {Unset},
     resume_s3_path : {Unset},
     state : {Unset, PENDING}]

UpdatableFields == {"first_name", "last_name", "email", "resume_s3_path", "state"}

\* ------------------------------------------------------------------- state
VARIABLES
    leads,      \* table `leads`: the committed rows, in rowid (= id) order
    now,        \* the UTC clock utcnow() reads
    sent,       \* e-mails EmailService sent while the latest request was handled
    workers,    \* per thread: the request it is handling and its session
    last        \* the response most recently returned to a client

vars == <<leads, now, sent, workers, last>>

NoRow ==
    [id |-> 0, first_name |-> Unset, last_name |-> Unset, email |-> Unset,
     resume_s3_path |-> Unset, state |-> Unset, created_at |-> 0, updated_at |-> 0]

NoData ==
    [first_name |-> Unset, last_name |-> Unset, email |-> Unset,
     resume_s3_path |-> Unset, state |-> Unset]

Idle == [pc |-> "idle", lead_id |-> 0, data |-> NoData, snap |-> NoRow, obj |-> NoRow]

\* A response: the endpoint, the HTTP status and the ids of the leads in the
\* body (the body is those rows as the handler's last SELECT read them).
Response(op, status, ids) ==
    [op |-> op, status |-> status, ids |-> ids]

\* ---------------------------------------------------------------- helpers
\* Mutant of Lead: first_name and last_name stored in each other's column.
Lead_names_swapped(id, lead, created_at, updated_at) ==
    [id |-> id,
     first_name |-> lead.last_name,
     last_name |-> lead.first_name,
     email |-> lead.email,
     resume_s3_path |-> lead.resume_s3_path,
     state |-> PENDING,
     created_at |-> created_at,
     updated_at |-> updated_at]

\* The row INSERT writes for a new Lead: autoincrement id, state PENDING as
\* the handler passes it, created_at / updated_at from their column defaults.
Lead(id, lead, created_at, updated_at) ==
    [id |-> id,
     first_name |-> lead.first_name,
     last_name |-> lead.last_name,
     email |-> lead.email,
     resume_s3_path |-> lead.resume_s3_path,
     state |-> PENDING,
     created_at |-> created_at,
     updated_at |-> updated_at]

\* db.query(Lead).filter(Lead.email == email).first() is not None
email_exists(db, email) == \E i \in 1..Len(db) : db[i].email = email

\* db.query(Lead).filter(Lead.id == lead_id).first() is not None
lead_exists(db, lead_id) == lead_id \in 1..Len(db)

\* HTTPBearer(): a request that carries no bearer credentials is answered by
\* the security scheme itself, before get_current_user runs.
security(token) == token # NoCredentials

\* Mutant of get_current_user: every presented token is accepted.
get_current_user_any(token) == TRUE

\* get_current_user: the token is accepted iff it is in API_KEYS.
get_current_user(token) == token \in API_KEYS

Authorized(token) == security(token) /\ get_current_user(token)

\* The status HTTPBearer() answers with when the credentials are missing.
\* It is set by the installed FastAPI, not by this repository: 403 in the
\* releases before 0.122, 401 since.
NotAuthenticated == {401, 403}

\* What a handler, or a step of one, leaves behind.
Result(db, t, emails, response) ==
    [leads |-> db, now |-> t, sent |-> emails, response |-> response]

\* ----------------------------------------------------- POST /leads (create)
\* The try/except around the two EmailService calls. `outcome` is what the
\* calls do: both return, the first raises (the second is then skipped), or
\* the second raises. Number of e-mails that went out:
emails_sent(outcome) ==
    CASE outcome = "ok" -> 2
      [] outcome = "prospect_raises" -> 0
      [] outcome = "attorney_raises" -> 1

\* Mutant of status_after_emails: a failed notification fails the request.
status_after_emails_raised(outcome) ==
    IF outcome = "ok" THEN HTTP_200_OK ELSE HTTP_500_INTERNAL_SERVER_ERROR

\* ... and the status the handler ends with: `except Exception` logs the
\* error and falls through to `return db_lead`.
status_after_emails(outcome) == HTTP_200_OK

MailOutcomes == {"ok", "prospect_raises", "attorney_raises"}

\* db.add / db.commit / db.refresh / the e-mails / return (lines 123-143).
\* The two column defaults are two calls of utcnow(), created_at first; the
\* clock advances by d between them.
insert_and_notify(db, t, lead, d, outcome) ==
    Result(Append(db, Lead(Len(db) + 1, lead, t, t + d)), t + d, emails_sent(outcome),
           IF status_after_emails(outcome) = HTTP_200_OK
           THEN Response("create", HTTP_200_OK, <<Len(db) + 1>>)
           ELSE Response("create", status_after_emails(outcome), <<>>))

\* The duplicate pre-check raising HTTPException(400) (lines 118-120).
reject_duplicate(db, t) ==
    Result(db, t, 0, Response("create", HTTP_400_BAD_REQUEST, <<>>))

create_lead(db, t, lead, d, outcome) ==
    IF email_exists(db, lead.email)
    THEN reject_duplicate(db, t)
    ELSE insert_and_notify(db, t, lead, d, outcome)

\* ------------------------------------------------------- GET /leads (list)
Min(a, b) == IF a < b THEN a ELSE b

\* query.filter(Lead.state == state), applied only `if state:`
filter_state(db, state) ==
    IF state = None THEN db ELSE SelectSeq(db, LAMBDA l : l.state = state)

\* query.offset(skip)
offset(rows, skip) == SubSeq(rows, skip + 1, Len(rows))

\* Mutant of limit_rows: one row more than asked for.
limit_rows_plus_one(rows, limit) == SubSeq(rows, 1, Min(limit + 1, Len(rows)))

\* query.limit(limit)
limit_rows(rows, limit) == SubSeq(rows, 1, Min(limit, Len(rows)))

Ids(rows) == [i \in 1..Len(rows) |-> rows[i].id]

\* SQLite reads the table in rowid order; no ORDER BY is given.
get_leads(db, t, skip, limit, state) ==
    Result(db, t, 0,
           Response("list", HTTP_200_OK,
                    Ids(limit_rows(offset(filter_state(db, state), skip), limit))))

\* -------------------------------------------------- GET /leads/{lead_id}
\* Mutant of not_found: the missing id is reported as a bad request.
not_found_as_bad_request(db, t, op) ==
    Result(db, t, 0, Response(op, HTTP_400_BAD_REQUEST, <<>>))

\* raise HTTPException(status_code=404, detail="Lead not found")
not_found(db, t, op) ==
    Result(db, t, 0, Response(op, HTTP_404_NOT_FOUND, <<>>))

get_lead(db, t, lead_id) ==
    IF lead_exists(db, lead_id)
    THEN Result(db, t, 0, Response("get", HTTP_200_OK, <<lead_id>>))
    ELSE not_found(db, t, "get")

\* ------------------------------------ PUT /leads/{lead_id} (partial update)
\* Mutant of model_dump: exclude_unset dropped, so every field is dumped.
model_dump_all(lead_update) == UpdatableFields

\* lead_update.model_dump(exclude_unset=True): the fields the body set,
\* those set to null included.
model_dump(lead_update) == {f \in UpdatableFields : lead_update[f] # Unset}

\* The session's Lead object after the setattr loop and
\* `lead.updated_at = utcnow()` (lines 189-195); `lead` is the row as loaded.
setattrs(lead, lead_update, ts) ==
    [f \in DOMAIN lead |->
        IF f \in model_dump(lead_update) THEN lead_update[f]
        ELSE IF f = "updated_at" THEN ts
        ELSE lead[f]]

\* The attributes of the session's object with a net change against the row
\* it was loaded from: the columns the ORM's flush puts in the SET clause.
dirty(snap, obj) == {f \in DOMAIN obj : obj[f] # snap[f]}

\* Every column is nullable=False: a flush that writes NULL raises
\* IntegrityError.
IntegrityError(snap, obj) ==
    \E f \in dirty(snap, obj) \cap UpdatableFields : obj[f] = None

\* The flush of db.commit(): UPDATE leads SET <dirty columns> WHERE id =
\* lead_id, and no statement at all when nothing is dirty. updated_at carries
\* onupdate=utcnow, evaluated at the flush (time t) when the SET clause has
\* no value for it.
UPDATE(db, t, lead_id, snap, obj) ==
    LET row == db[lead_id]
        cols == dirty(snap, obj)
    IN  IF cols = {} THEN db
        ELSE [db EXCEPT ![lead_id] =
                 [f \in DOMAIN row |->
                     IF f \in cols THEN obj[f]
                     ELSE IF f = "updated_at" THEN t
                     ELSE row[f]]]

\* db.commit(); db.refresh(lead); return lead (lines 197-200, 219-224). An
\* IntegrityError leaves the handler as an unhandled exception: status 500,
\* and the session is rolled back when get_db closes it.
commit_update(db, t, op, lead_id, snap, obj) ==
    IF IntegrityError(snap, obj)
    THEN Result(db, t, 0, Response(op, HTTP_500_INTERNAL_SERVER_ERROR, <<>>))
    ELSE Result(UPDATE(db, t, lead_id, snap, obj), t, 0,
                Response(op, HTTP_200_OK, <<lead_id>>))

\* Mutant of update_lead: the email of the body is checked against the other
\* leads, as create checks it, and a held one is refused.
update_lead_checks_email(db, t, lead_id, lead_update) ==
    IF lead_exists(db, lead_id)
    THEN IF /\ lead_update.email # Unset
            /\ \E i \in 1..Len(db) : db[i].id # lead_id /\ db[i].email = lead_update.email
         THEN Result(db, t, 0, Response("update", HTTP_400_BAD_REQUEST, <<>>))
         ELSE commit_update(db, t, "update", lead_id, db[lead_id],
                            setattrs(db[lead_id], lead_update, t))
    ELSE not_found(db, t, "update")

update_lead(db, t, lead_id, lead_update) ==
    IF lead_exists(db, lead_id)
    THEN commit_update(db, t, "update", lead_id, db[lead_id],
                       setattrs(db[lead_id], lead_update, t))
    ELSE not_found(db, t, "update")

\* ---------------------------- PATCH /leads/{lead_id}/state (transition)
\* Mutant of set_state: a transition graph, REACHED_OUT never goes back.
set_state_forward_only(lead, new_state, ts) ==
    IF lead.state = REACHED_OUT
    THEN [lead EXCEPT !.updated_at = ts]
    ELSE [lead EXCEPT !.state = new_state, !.updated_at = ts]

\* lead.state = new_state; lead.updated_at = utcnow() (lines 216-217)
set_state(lead, new_state, ts) ==
    [lead EXCEPT !.state = new_state, !.updated_at = ts]

update_lead_state(db, t, lead_id, new_state) ==
    IF lead_exists(db, lead_id)
    THEN commit_update(db, t, "state", lead_id, db[lead_id],
                       set_state(db[lead_id], new_state, t))
    ELSE not_found(db, t, "state")

\* ------------------------------------------------------------ GET /health
health_check(db, t) == Result(db, t, 0, Response("health", HTTP_200_OK, <<>>))

\* ------------------------------------------------------ authorization gate
\* The 401 of get_current_user, or HTTPBearer's own answer (status
\* `not_authenticated`) when the request has no credentials.
unauthorized(db, t, op, token, not_authenticated) ==
    Result(db, t, 0,
           Response(op,
                    IF security(token) THEN HTTP_401_UNAUTHORIZED ELSE not_authenticated,
                    <<>>))

\* Depends(get_current_user) on a /leads route: the handler's result when
\* the token is accepted, the gate's answer otherwise.
protected(db, t, op, token, not_authenticated, handled) ==
    IF Authorized(token) THEN handled
    ELSE unauthorized(db, t, op, token, not_authenticated)

\* ------------------------------------------------------ the HTTP surface
\* A request is its bearer token and the endpoint's parameters.
POST_leads(db, t, req, not_authenticated, d, outcome) ==
    protected(db, t, "create", req.token, not_authenticated,
              create_lead(db, t, req.lead, d, outcome))

GET_leads(db, t, req, not_authenticated) ==
    protected(db, t, "list", req.token, not_authenticated,
              get_leads(db, t, req.skip, req.limit, req.state))

GET_lead(db, t, req, not_authenticated) ==
    protected(db, t, "get", req.token, not_authenticated,
              get_lead(db, t, req.lead_id))

PUT_lead(db, t, req, not_authenticated) ==
    protected(db, t, "update", req.token, not_authenticated,
              update_lead(db, t, req.lead_id, req.lead_update))

PATCH_lead_state(db, t, req, not_authenticated) ==
    protected(db, t, "state", req.token, not_authenticated,
              update_lead_state(db, t, req.lead_id, req.new_state))

\* The requests the clients send: every parameter with a token of the
\* allow-list, and a few with a token outside it or with none.
GoodTokens == Tokens \cap API_KEYS
BadTokens == Tokens \ API_KEYS

CreateRequests ==
    [token : GoodTokens, lead : LeadCreate]
    \cup [token : BadTokens, lead : {l \in LeadCreate : l.first_name = "John"}]

ListRequests ==
    [token : GoodTokens, skip : Skips, limit : Limits, state : StateFilters]
    \cup [token : BadTokens, skip : {0}, limit : {MaxLeads}, state : {None}]

GetRequests ==
    [token : GoodTokens, lead_id : LeadIds]
    \cup [token : BadTokens, lead_id : {1}]

UpdateRequests ==
    [token : GoodTokens, lead_id : LeadIds, lead_update : LeadUpdate]
    \cup [token : BadTokens, lead_id : {1},
          lead_update : {u \in LeadUpdate : u.first_name = "John" /\ u.last_name = Unset
                                            /\ u.resume_s3_path = Unset}]

StateRequests ==
    [token : GoodTokens, lead_id : LeadIds, new_state : LeadState]
    \cup [token : BadTokens, lead_id : {1}, new_state : LeadState]

\* The statuses a request without credentials can meet; no choice otherwise.
Answers(token) == IF token = NoCredentials THEN NotAuthenticated ELSE {HTTP_401_UNAUTHORIZED}

\* How far the clock can advance inside one INSERT.
Delays(t) == {d \in 0..1 : t + d <= MaxClock}

\* ------------------------------------------------------------- actions
Apply(r) ==
    /\ leads' = r.leads
    /\ now' = r.now
    /\ sent' = r.sent
    /\ last' = r.response

PostLeads ==
    \E req \in CreateRequests : \E na \in Answers(req.token), d \in Delays(now),
                                 outcome \in MailOutcomes :
        LET r == POST_leads(leads, now, req, na, d, outcome) IN
        /\ Len(r.leads) <= MaxLeads
        /\ Apply(r)
        /\ UNCHANGED workers

ListLeads ==
    \E req \in ListRequests : \E na \in Answers(req.token) :
        Apply(GET_leads(leads, now, req, na)) /\ UNCHANGED workers

GetLead ==
    \E req \in GetRequests : \E na \in Answers(req.token) :
        Apply(GET_lead(leads, now, req, na)) /\ UNCHANGED workers

PutLead ==
    \E req \in UpdateRequests : \E na \in Answers(req.token) :
        Apply(PUT_lead(leads, now, req, na)) /\ UNCHANGED workers

PatchLeadState ==
    \E req \in StateRequests : \E na \in Answers(req.token) :
        Apply(PATCH_lead_state(leads, now, req, na)) /\ UNCHANGED workers

Health ==
    Apply(health_check(leads, now)) /\ UNCHANGED workers

Tick ==
    /\ now < MaxClock
    /\ now' = now + 1
    /\ UNCHANGED <<leads, sent, workers, last>>

Init ==
    /\ leads = <<>>
    /\ now = 0
    /\ sent = 0
    /\ workers = [w \in 1..NumWorkers |-> Idle]
    /\ last = Response("none", 0, <<>>)

Next ==
    \/ PostLeads
    \/ ListLeads
    \/ GetLead
    \/ PutLead
    \/ PatchLeadState
    \/ Health
    \/ Tick

Spec == Init /\ [][Next]_vars

\* ------------------------------------------------- concurrent execution
\* The handlers are plain `def` functions: the server runs each request on
\* a thread of its pool, with a session of its own (get_db), so requests
\* interleave between their database round trips. A thread's steps:
\*   POST  : the duplicate pre-check (SELECT); INSERT + COMMIT;
\*   PUT   : SELECT; setattr loop and clock reading; UPDATE + COMMIT;
\*   PATCH : SELECT; assignment and clock reading; UPDATE + COMMIT.
\* pysqlite opens no transaction for a SELECT, so no lock is held between a
\* thread's read and its write. The requests carry an accepted token.
ConcurrentCreates == {l \in LeadCreate : l.first_name = "John" /\ l.email = "john@test.com"}
ConcurrentUpdates ==
    {u \in LeadUpdate : /\ u.first_name = Unset /\ u.last_name = Unset
                        /\ u.email = Unset /\ u.resume_s3_path = Unset}

Inserting == {w \in 1..NumWorkers : workers[w].pc = "create:insert"}

create_lead_check(w, lead) ==
    /\ workers[w].pc = "idle"
    /\ Len(leads) + Cardinality(Inserting) < MaxLeads
    /\ IF email_exists(leads, lead.email)
       THEN Apply(reject_duplicate(leads, now)) /\ UNCHANGED workers
       ELSE /\ workers' = [workers EXCEPT ![w] = [Idle EXCEPT !.pc = "create:insert",
                                                               !.data = lead]]
            /\ UNCHANGED <<leads, now, sent, last>>

create_lead_insert(w) ==
    /\ workers[w].pc = "create:insert"
    /\ \E d \in Delays(now), outcome \in MailOutcomes :
          Apply(insert_and_notify(leads, now, workers[w].data, d, outcome))
    /\ workers' = [workers EXCEPT ![w] = Idle]

update_lead_select(w, lead_id, lead_update) ==
    /\ workers[w].pc = "idle"
    /\ IF lead_exists(leads, lead_id)
       THEN /\ workers' = [workers EXCEPT ![w] =
                   [pc |-> "update:setattr", lead_id |-> lead_id, data |-> lead_update,
                    snap |-> leads[lead_id], obj |-> leads[lead_id]]]
            /\ UNCHANGED <<leads, now, sent, last>>
       ELSE Apply(not_found(leads, now, "update")) /\ UNCHANGED workers

update_lead_setattr(w) ==
    /\ workers[w].pc = "update:setattr"
    /\ workers' = [workers EXCEPT ![w].pc = "update:commit",
                                  ![w].obj = setattrs(@, workers[w].data, now)]
    /\ UNCHANGED <<leads, now, sent, last>>

update_lead_commit(w) ==
    /\ workers[w].pc = "update:commit"
    /\ Apply(commit_update(leads, now, "update", workers[w].lead_id, workers[w].snap,
                           workers[w].obj))
    /\ workers' = [workers EXCEPT ![w] = Idle]

update_lead_state_select(w, lead_id, new_state) ==
    /\ workers[w].pc = "idle"
    /\ IF lead_exists(leads, lead_id)
       THEN /\ workers' = [workers EXCEPT ![w] =
                   [pc |-> "state:assign", lead_id |-> lead_id,
                    data |-> [NoData EXCEPT !.state = new_state],
                    snap |-> leads[lead_id], obj |-> leads[lead_id]]]
            /\ UNCHANGED <<leads, now, sent, last>>
       ELSE Apply(not_found(leads, now, "state")) /\ UNCHANGED workers

update_lead_state_assign(w) ==
    /\ workers[w].pc = "state:assign"
    /\ workers' = [workers EXCEPT ![w].pc = "state:commit",
                                  ![w].obj = set_state(@, workers[w].data.state, now)]
    /\ UNCHANGED <<leads, now, sent, last>>

update_lead_state_commit(w) ==
    /\ workers[w].pc = "state:commit"
    /\ Apply(commit_update(leads, now, "state", workers[w].lead_id, workers[w].snap,
                           workers[w].obj))
    /\ workers' = [workers EXCEPT ![w] = Idle]

NextConcurrent ==
    \/ \E w \in 1..NumWorkers, lead \in ConcurrentCreates : create_lead_check(w, lead)
    \/ \E w \in 1..NumWorkers : create_lead_insert(w)
    \/ \E w \in 1..NumWorkers, lead_id \in LeadIds, lead_update \in ConcurrentUpdates :
          update_lead_select(w, lead_id, lead_update)
    \/ \E w \in 1..NumWorkers : update_lead_setattr(w)
    \/ \E w \in 1..NumWorkers : update_lead_commit(w)
    \/ \E w \in 1..NumWorkers, lead_id \in LeadIds, new_state \in LeadState :
          update_lead_state_select(w, lead_id, new_state)
    \/ \E w \in 1..NumWorkers : update_lead_state_assign(w)
    \/ \E w \in 1..NumWorkers : update_lead_state_commit(w)
    \/ Tick

SpecConcurrent == Init /\ [][NextConcurrent]_vars

\* ================================================================ claims
\* Number of stored leads that hold `email`.
EmailCount(db, email) == Cardinality({i \in 1..Len(db) : db[i].email = email})

\* Number of stored leads whose id is `id`.
IdCount(db, id) == Cardinality({i \in 1..Len(db) : db[i].id = id})

\* The stored lead whose id is `id`.
ById(db, id) == db[CHOOSE i \in 1..Len(db) : db[i].id = id]

\* Every lead of `before` is in `after`, at its place, with every field as it was.
Untouched(before, after) ==
    /\ Len(after) >= Len(before)
    /\ \A i \in 1..Len(before) : after[i] = before[i]

\* Every lead of `before` other than `lead_id` is in `after` as it was, and
\* no lead came or went.
OthersUntouched(before, after, lead_id) ==
    /\ Len(after) = Len(before)
    /\ \A i \in 1..Len(before) : before[i].id # lead_id => after[i] = before[i]

\* C1 (as stated; under SpecConcurrent): however concurrent create requests
\* with the same email interleave their pre-check and their insert, the
\* store never holds more than one lead with that email.
C1_OneLeadPerEmailUnderConcurrentCreates ==
    \A email \in Emails : EmailCount(leads, email) <= 1

\* C2 (as stated): a create whose email a committed lead already holds is
\* answered 400, inserts nothing and changes nothing, and the store then
\* contains exactly one record for that email.
C2_DuplicateCreateLeavesExactlyOne ==
    \A lead \in LeadCreate, d \in Delays(now), outcome \in MailOutcomes :
        email_exists(leads, lead.email) =>
            LET r == create_lead(leads, now, lead, d, outcome) IN
            /\ r.response.status = HTTP_400_BAD_REQUEST
            /\ r.leads = leads
            /\ r.sent = 0
            /\ EmailCount(r.leads, lead.email) = 1

Provided(partial) == {f \in UpdatableFields : partial[f] # Unset}

\* C4: a successful update(id, partial) gives the provided fields their
\* provided values and refreshes updated_at to the current time, also when
\* the partial set is empty; every field not provided, the id and created_at
\* keep their prior values, and every other lead is unchanged.
C4_UpdateIsPartialMerge ==
    \A lead_id \in LeadIds, partial \in LeadUpdate :
        LET r == update_lead(leads, now, lead_id, partial) IN
        (lead_exists(leads, lead_id) /\ r.response.status = HTTP_200_OK) =>
            /\ OthersUntouched(leads, r.leads, lead_id)
            /\ IdCount(r.leads, lead_id) = 1
            /\ LET old == ById(leads, lead_id)
                   new == ById(r.leads, lead_id)
               IN  /\ \A f \in Provided(partial) : new[f] = partial[f]
                   /\ \A f \in UpdatableFields \ Provided(partial) : new[f] = old[f]
                   /\ new.id = old.id
                   /\ new.created_at = old.created_at
                   /\ new.updated_at = now
                   /\ r.now = now

\* An update has just succeeded on one of two leads, at a time after the
\* lead's creation.
C4_Witness ==
    /\ last.op = "update"
    /\ last.status = HTTP_200_OK
    /\ Len(leads) = 2
    /\ Len(last.ids) = 1
    /\ IdCount(leads, last.ids[1]) = 1
    /\ ById(leads, last.ids[1]).updated_at = now
    /\ ById(leads, last.ids[1]).updated_at > ById(leads, last.ids[1]).created_at

\* C5 (as stated; under SpecConcurrent): no step, and so no commit of an
\* update or a transition, leaves a lead's stored updated_at smaller than
\* it was immediately before.
C5_UpdatedAtNeverMovesBack ==
    [][\A i \in 1..Len(leads) : leads'[i].updated_at >= leads[i].updated_at]_vars

\* C6: transition(id, new_state) on an existing lead succeeds whatever the
\* current and the new state are; afterwards the lead's state is new_state,
\* its updated_at is the current time, and its id, names, email,
\* resume_s3_path and created_at, and every other lead, are unchanged.
C6_TransitionIsUnrestricted ==
    \A lead_id \in LeadIds, new_state \in LeadState :
        lead_exists(leads, lead_id) =>
            LET r == update_lead_state(leads, now, lead_id, new_state) IN
            /\ r.response.status = HTTP_200_OK
            /\ r.response.ids = <<lead_id>>
            /\ OthersUntouched(leads, r.leads, lead_id)
            /\ IdCount(r.leads, lead_id) = 1
            /\ LET old == ById(leads, lead_id)
                   new == ById(r.leads, lead_id)
               IN  /\ new.state = new_state
                   /\ new.updated_at = now
                   /\ \A f \in {"id", "first_name", "last_name", "email",
                                "resume_s3_path", "created_at"} : new[f] = old[f]

\* A transition has just succeeded on a lead that had been REACHED_OUT or
\* PENDING before, leaving it PENDING at a time after its creation.
C6_Witness ==
    /\ last.op = "state"
    /\ last.status = HTTP_200_OK
    /\ Len(last.ids) = 1
    /\ IdCount(leads, last.ids[1]) = 1
    /\ ById(leads, last.ids[1]).state = PENDING
    /\ ById(leads, last.ids[1]).updated_at > ById(leads, last.ids[1]).created_at

\* C7: get, update and transition addressed to an id no stored lead has are
\* answered 404, whatever else the request carries, and leave the store as
\* it was.
C7_MissingIdIsNotFound ==
    \A lead_id \in LeadIds :
        IdCount(leads, lead_id) = 0 =>
            /\ LET r == get_lead(leads, now, lead_id) IN
               r.response.status = HTTP_404_NOT_FOUND /\ r.leads = leads
            /\ \A partial \in LeadUpdate :
                  LET r == update_lead(leads, now, lead_id, partial) IN
                  r.response.status = HTTP_404_NOT_FOUND /\ r.leads = leads
            /\ \A new_state \in LeadState :
                  LET r == update_lead_state(leads, now, lead_id, new_state) IN
                  r.response.status = HTTP_404_NOT_FOUND /\ r.leads = leads

\* A request for a missing id has just been answered 404 while leads are stored.
C7_Witness ==
    /\ last.op \in {"get", "update", "state"}
    /\ last.status = HTTP_404_NOT_FOUND
    /\ Len(leads) > 0

\* The ids of the leads that match the filter, and the k-th smallest of a
\* set of ids.
MatchingIds(db, state) ==
    {db[i].id : i \in {j \in 1..Len(db) : state = None \/ db[j].state = state}}

Kth(S, k) == CHOOSE x \in S : Cardinality({y \in S : y < x}) = k - 1

\* C8: list(skip, limit, state) returns the leads at positions skip ..
\* skip+limit-1 of the id-ordered sequence of the leads that match the
\* filter: at most limit of them, each matching the filter; the store is
\* unchanged.
C8_ListIsSliceOfMatching ==
    \A skip \in Skips, limit \in Limits, state \in StateFilters :
        LET r == get_leads(leads, now, skip, limit, state)
            ids == r.response.ids
            M == MatchingIds(leads, state)
            n == Cardinality(M) - skip
        IN  /\ r.response.status = HTTP_200_OK
            /\ r.leads = leads
            /\ Len(ids) <= limit
            /\ Len(ids) = (IF n < 0 THEN 0 ELSE IF n < limit THEN n ELSE limit)
            /\ \A k \in 1..Len(ids) : ids[k] = Kth(M, skip + k)
            /\ state # None => \A k \in 1..Len(ids) : ById(leads, ids[k]).state = state

\* A list has just returned the second of two stored leads alone.
C8_Witness ==
    /\ last.op = "list"
    /\ last.status = HTTP_200_OK
    /\ Len(leads) = 2
    /\ last.ids = <<2>>

\* C9: a request to create, list, get, update or transition whose token is
\* missing or not in the allow-list is answered with the unauthorized
\* failure (401 for a token outside the list), returns no lead, leaves
\* every lead as it was and sends no notification.
Rejected(r, token) ==
    /\ r.response.status \in NotAuthenticated
    /\ token # NoCredentials => r.response.status = HTTP_401_UNAUTHORIZED
    /\ r.response.ids = <<>>
    /\ r.leads = leads
    /\ r.sent = 0

C9_UnauthorizedTouchesNothing ==
    \A token \in BadTokens : \A na \in Answers(token) :
        /\ \A req \in CreateRequests, d \in Delays(now), outcome \in MailOutcomes :
              req.token = token => Rejected(POST_leads(leads, now, req, na, d, outcome), token)
        /\ \A req \in ListRequests :
              req.token = token => Rejected(GET_leads(leads, now, req, na), token)
        /\ \A req \in GetRequests :
              req.token = token => Rejected(GET_lead(leads, now, req, na), token)
        /\ \A req \in UpdateRequests :
              req.token = token => Rejected(PUT_lead(leads, now, req, na), token)
        /\ \A req \in StateRequests :
              req.token = token => Rejected(PATCH_lead_state(leads, now, req, na), token)

\* A write to a stored lead has just been refused as unauthorized.
C9_Witness ==
    /\ last.op \in {"create", "update", "state"}
    /\ last.status \in NotAuthenticated
    /\ Len(leads) > 0
    /\ sent = 0

\* C10: when a notification fails during a create with a fresh email, the
\* create still answers 200 with the new lead, and the lead is stored.
C10_NotificationFailureIsAbsorbed ==
    \A lead \in LeadCreate, d \in Delays(now), outcome \in MailOutcomes \ {"ok"} :
        ~ email_exists(leads, lead.email) =>
            LET r == create_lead(leads, now, lead, d, outcome) IN
            /\ r.response.status = HTTP_200_OK
            /\ Len(r.response.ids) = 1
            /\ IdCount(r.leads, r.response.ids[1]) = 1
            /\ ById(r.leads, r.response.ids[1]).email = lead.email
            /\ Untouched(leads, r.leads)
            /\ r.sent < 2

\* A create has just answered 200 although not both e-mails went out, and
\* its lead is stored.
C10_Witness ==
    /\ last.op = "create"
    /\ last.status = HTTP_200_OK
    /\ sent < 2
    /\ Len(last.ids) = 1
    /\ IdCount(leads, last.ids[1]) = 1

\* C11 (as stated): every stored lead has a non-empty first_name, last_name
\* and resume_s3_path, whatever creates and updates were accepted.
C11_StoredNamesAreNonEmpty ==
    \A i \in 1..Len(leads) :
        \A f \in {"first_name", "last_name", "resume_s3_path"} :
            leads[i][f] \notin {"", None}

\* The leads other than `lead_id` that hold `email`.
OtherHolders(db, lead_id, email) ==
    {i \in 1..Len(db) : db[i].id # lead_id /\ db[i].email = email}

\* C12: update(id, partial) with an email in the partial set succeeds on an
\* existing lead and stores that email, also when a different lead already
\* holds it, so that two leads then share it; and no update, whatever it
\* carries, is answered with the duplicate-email error (400).
C12_UpdateNeverRechecksEmail ==
    \A lead_id \in LeadIds, partial \in LeadUpdate :
        LET r == update_lead(leads, now, lead_id, partial) IN
        /\ r.response.status # HTTP_400_BAD_REQUEST
        /\ ( /\ lead_exists(leads, lead_id)
             /\ partial.email # Unset
             /\ \A f \in Provided(partial) : partial[f] # None )
           => /\ r.response.status = HTTP_200_OK
              /\ ById(r.leads, lead_id).email = partial.email
              /\ EmailCount(r.leads, partial.email)
                    = Cardinality(OtherHolders(leads, lead_id, partial.email)) + 1

\* An update has just succeeded and left its lead with the email another
\* lead holds.
C12_Witness ==
    /\ last.op = "update"
    /\ last.status = HTTP_200_OK
    /\ Len(last.ids) = 1
    /\ IdCount(leads, last.ids[1]) = 1
    /\ OtherHolders(leads, last.ids[1], ById(leads, last.ids[1]).email) # {}

====
